---- MODULE Spec2Model ----
(***************************************************************************)
(* Rprtr crawler: the frontier engine (class Crawler) as a state machine.  *)
(*                                                                         *)
(* A URL string is a sequence of one-character tokens:                     *)
(*   u[1]  the scheme    "h" = http(s)://   "m" = mailto:                  *)
(*   u[2]  the host      "x" = x.com   "s" = sub.x.com   "y" = x.org       *)
(*                       "o" = other.com   "l" = localhost                 *)
(*                       "X" = X.COM (only in text no URL parser has seen) *)
(*   u[3..] the path, starting with "/", and an optional "?" query         *)
(* A raw href of a page is such a string, a root-relative path ("/" ...),  *)
(* a pure fragment ("#" ...) or the unparseable href <<"!">>.              *)
(***************************************************************************)
EXTENDS Integers, Sequences, FiniteSets, TLC

(***************************************************************************)
(* Strings                                                                 *)
(***************************************************************************)

\* String.prototype.toLowerCase on one character
LowerChar(c) ==
    CASE c = "A" -> "a"
      [] c = "B" -> "b"
      [] c = "X" -> "x"
      [] OTHER -> c

\* url.toLowerCase()
toLowerCase(s) == [i \in DOMAIN s |-> LowerChar(s[i])]

\* url.replace("?", ""): the text without its first "?"
SplitQueryDropsMark(s) ==
    LET qs == {i \in DOMAIN s : s[i] = "?"}
        q == CHOOSE i \in qs : \A j \in qs : i <= j
    IN  IF qs = {} THEN s
        ELSE SubSeq(s, 1, q - 1) \o SubSeq(s, q + 1, Len(s))

\* url.split("?")[0]: the text before the first "?"
SplitQuery(s) ==
    LET qs == {i \in DOMAIN s : s[i] = "?"}
    IN  IF qs = {} THEN s
        ELSE SubSeq(s, 1, (CHOOSE i \in qs : \A j \in qs : i <= j) - 1)

\* the elements of a sequence
Range(s) == {s[i] : i \in DOMAIN s}

\* an add that moves an element the Set already holds to the end
SetAddToEnd(s, e) == Append(SelectSeq(s, LAMBDA x : x # e), e)

\* Set.prototype.add on an insertion-ordered Set
SetAdd(s, e) == IF e \in Range(s) THEN s ELSE Append(s, e)

(***************************************************************************)
(* Domains (tldts) and URL resolution (WHATWG URL)                         *)
(***************************************************************************)

Null == "null"

\* hostname of a URL string; Null when the text has none
Hostname(u) ==
    IF Len(u) >= 2 /\ u[1] = "h" THEN LowerChar(u[2]) ELSE Null

\* tldts getDomain: the registrable domain, or null
getDomain(u) ==
    CASE Hostname(u) = "x" -> "x.com"
      [] Hostname(u) = "s" -> "x.com"
      [] Hostname(u) = "y" -> "x.org"
      [] Hostname(u) = "o" -> "other.com"
      [] OTHER -> Null

\* tldts getDomainWithoutSuffix: the registrable domain less its public suffix
getDomainWithoutSuffix(u) ==
    CASE Hostname(u) = "x" -> "x"
      [] Hostname(u) = "s" -> "x"
      [] Hostname(u) = "y" -> "x"
      [] Hostname(u) = "o" -> "other"
      [] OTHER -> Null

\* the domain the crawl compares: anyTLD ? getDomainWithoutSuffix : getDomain
DomainOf(anyTLD, u) ==
    IF anyTLD THEN getDomainWithoutSuffix(u) ELSE getDomain(u)

\* new URL(href, base) throws a TypeError
Unparseable(href) == href = << >> \/ Head(href) \notin {"h", "m", "/"}

\* new URL(href, base).href for a parseable href
Resolve(href, base) ==
    CASE Head(href) = "/" -> <<base[1], LowerChar(base[2])>> \o href
      [] Head(href) = "h" /\ Len(href) >= 2 ->
             [href EXCEPT ![2] = LowerChar(@)]
      [] OTHER -> href

\* href.protocol === "http:" || href.protocol === "https:"
IsHttp(u) == u # << >> /\ Head(u) = "h"

(***************************************************************************)
(* The crawled world: sites, seeds and HTTP responses                      *)
(***************************************************************************)

Root    == <<"h", "x", "/">>
PageA   == <<"h", "x", "/", "a">>
PageAUp == <<"h", "x", "/", "A">>
PageAQ  == <<"h", "x", "/", "a", "?", "q">>
PageB   == <<"h", "x", "/", "b">>
PageAB  == <<"h", "x", "/", "a", "/", "b">>
SubB    == <<"h", "s", "/", "b">>
OrgRoot == <<"h", "y", "/">>
Other   == <<"h", "o", "/", "x">>
Local   == <<"h", "l", "/">>
LocalA  == <<"h", "l", "/", "a">>
Mailto  == <<"m", "x">>

\* the end-to-end scenario: / -> [/a, /b, other.com/x], /a -> [], /b -> [/a]
SiteExample ==
    (Root :> << <<"/", "a">>, <<"/", "b">>, Other >>) @@
    (PageA :> << >>) @@
    (PageB :> << <<"/", "a">> >>)

\* pages that link back to the seed, case and query variants, other hosts
SiteCycle ==
    (Root :> << PageAUp, PageAQ, <<"#", "t">>, Mailto >>) @@
    (PageA :> << Root, SubB, PageA >>) @@
    (PageAUp :> << PageB, Other >>) @@
    (PageAQ :> << Root >>) @@
    (PageB :> << <<"!">> >>) @@
    (SubB :> << OrgRoot, <<"/">> >>) @@
    (OrgRoot :> << PageB >>)

\* a host without a registrable domain
SiteLocal ==
    (Local :> << <<"/", "a">>, <<"h", "X", "/">> >>) @@
    (LocalA :> << <<"/", "a">> >>)

Sites == {SiteExample, SiteCycle, SiteLocal}

\* a page with three links, two of them case variants of one url, and two
\* pages that link to each other, one of them to a page further down
SiteTwins ==
    (Root :> << PageA, PageB, PageAUp >>) @@
    (PageA :> << PageB >>) @@
    (PageAUp :> << >>) @@
    (PageB :> << PageA, PageAB >>)

\* the sites the legacy function is run on
LegacySites == Sites \cup {SiteTwins}

\* the seed a site is crawled from
SeedOf(s) == IF s = SiteLocal THEN Local ELSE Root

\* the href attributes of the page a site serves at url
Hrefs(s, url) == IF url \in DOMAIN s THEN s[url] ELSE << >>

\* what axios.get(url) settles with: a 2xx response with a body ("ok") or with
\* an empty body ("empty"), an error carrying a response ("status"), or an
\* error without one ("neterr")
Responses ==
    {[kind |-> "ok", status |-> 200], [kind |-> "empty", status |-> 200],
     [kind |-> "status", status |-> 404], [kind |-> "status", status |-> 500],
     [kind |-> "neterr", status |-> 0]}

\* a fetch that has not settled yet
NoResponse == [kind |-> "pending", status |-> 0]

(***************************************************************************)
(* Result sink ordering: sortAndFilterUrls                                 *)
(***************************************************************************)

\* UTF-16 code unit order of the characters used: # / ? A B X a b h ...
CodeOrder == <<"!", "#", "/", "?", "A", "B", "X", "a", "b", "h", "l", "m",
               "o", "q", "s", "t", "x", "y">>

CharCode(c) == CHOOSE i \in DOMAIN CodeOrder : CodeOrder[i] = c

\* JavaScript a < b on strings
StrLess(a, b) ==
    \E i \in 1..Len(b) :
        /\ \A j \in 1..(i - 1) : j <= Len(a) /\ a[j] = b[j]
        /\ \/ i = Len(a) + 1
           \/ i <= Len(a) /\ CharCode(a[i]) < CharCode(b[i])

\* new URL(u).pathname: the text after the host, up to the query or fragment
Pathname(u) ==
    LET ends == {i \in 3..Len(u) : u[i] \in {"?", "#"}}
        last == IF ends = {} THEN Len(u)
                ELSE (CHOOSE i \in ends : \A j \in ends : i <= j) - 1
    IN  SubSeq(u, 3, last)

\* the index where the segment of p that starts at index i ends
SegmentEnd(p, i) ==
    CHOOSE j \in i..Len(p) :
        /\ \A k \in i..j : p[k] # "/"
        /\ j = Len(p) \/ p[j + 1] = "/"

\* p.split("/").filter(segment => segment !== "")
SplitSlash(p) ==
    LET starts == {i \in DOMAIN p : p[i] # "/" /\ (i = 1 \/ p[i - 1] = "/")}
    IN  [k \in 1..Cardinality(starts) |->
            LET i == CHOOSE x \in starts :
                         Cardinality({y \in starts : y < x}) = k - 1
            IN  SubSeq(p, i, SegmentEnd(p, i))]

Min(a, b) == IF a <= b THEN a ELSE b

\* the comparator without its last line: paths equal so far compare equal
ComparePathsNoLength(a, b) ==
    LET pathA == SplitSlash(Pathname(a))
        pathB == SplitSlash(Pathname(b))
        diffs == {i \in 1..Min(Len(pathA), Len(pathB)) : pathA[i] # pathB[i]}
    IN  IF diffs # {}
        THEN LET i == CHOOSE k \in diffs : \A j \in diffs : k <= j
             IN  IF StrLess(pathA[i], pathB[i]) THEN -1 ELSE 1
        ELSE 0

\* the comparator of sortAndFilterUrls: negative, zero or positive
ComparePaths(a, b) ==
    LET pathA == SplitSlash(Pathname(a))
        pathB == SplitSlash(Pathname(b))
        diffs == {i \in 1..Min(Len(pathA), Len(pathB)) : pathA[i] # pathB[i]}
    IN  IF diffs # {}
        THEN LET i == CHOOSE k \in diffs : \A j \in diffs : k <= j
             IN  IF StrLess(pathA[i], pathB[i]) THEN -1 ELSE 1
        ELSE Len(pathA) - Len(pathB)

\* the URLs the arrays given to sortAndFilterUrls on its own are made of:
\* nested paths, the same path on two hosts, with and without a query
SortPool == {PageAB, PageA, PageB, Root, OrgRoot, PageAQ}

\* every URL string a crawl of the modelled sites can hold: the pages, their
\* resolved links, and what push makes of them; and the URLs of SortPool
UrlUniverse ==
    LET parseable(p, s) ==
            {k \in DOMAIN s[p] : s[p][k] # << >> /\ ~Unparseable(s[p][k])}
        raw == UNION {DOMAIN s \cup
                      UNION {{Resolve(s[p][k], p) : k \in parseable(p, s)} :
                                p \in DOMAIN s} : s \in Sites}
        cased == raw \cup {toLowerCase(u) : u \in raw}
    IN  cased \cup {SplitQuery(u) : u \in cased} \cup SortPool

\* the comparator's result for every pair of URLs, computed once
PathOrder ==
    [pair \in UrlUniverse \X UrlUniverse |-> ComparePaths(pair[1], pair[2])]
        @@ << >>

\* the place Array.prototype.sort (a stable sort) gives element i: after
\* every element that compares smaller, and after the earlier elements that
\* compare equal
SortedPlace(urls, i) ==
    1 + Cardinality({j \in DOMAIN urls :
                        \/ PathOrder[<<urls[j], urls[i]>>] < 0
                        \/ PathOrder[<<urls[j], urls[i]>>] = 0 /\ j < i})

\* urls.sort(comparator)
sortAndFilterUrls(urls) ==
    [k \in DOMAIN urls |->
        urls[CHOOSE i \in DOMAIN urls : SortedPlace(urls, i) = k]]

(***************************************************************************)
(* State of one Crawler instance and of the crawl() call in progress       *)
(***************************************************************************)

VARIABLES
    site,                   \* the web server: url -> hrefs of its page
    seed,                   \* the argument of crawl(url)
    _maxConcurrentThreads,
    _queue,                 \* Frontier, a Set in insertion order
    _alreadyCrawled,        \* VisitedSet, a Set in insertion order
    _anyTLD,
    _ignoreQueryParams,
    _ignoreCase,
    _baseDomain,
    _skipCodes,
    _lastQueueSize,
    _counters,
    _batchesCrawled,
    verbose,                \* process.env.VERBOSE is "true"
    pc,                     \* where crawl() stands
    batch,                  \* the batch of the current loop iteration
    tasks,                  \* every async callback batch.map has started
    fetchLog,               \* every url handed to axios.get, in call order
    batchLog,               \* every batch takeAndRemove has returned
    sinkLog,                \* the calls to appendUrlsToFile and urlsToFile
    allOk,                  \* every response so far was a 2xx with a body
    file,                   \* the content of the file OUT_FILE names
    completed               \* the calls of sinkLog whose fs operation is over

\* the arguments of the legacy function crawl(url, anyTLD, ...), shared by
\* all its recursive calls, and the calls themselves
VARIABLES
    anyTLD,
    ignoreQueryParams,
    ignoreCase,
    maxDepth,
    visited,                \* the Set passed down the recursion
    counters,               \* the counters object passed down the recursion
    calls,                  \* every call of crawl made so far
    requested,              \* every url handed to axios.get, in call order
    sequential              \* the variant that awaits its recursive calls
                            \* one by one (for ... of) instead of Promise.all

crawler == <<site, seed, _maxConcurrentThreads, _queue, _alreadyCrawled,
             _anyTLD, _ignoreQueryParams, _ignoreCase, _baseDomain,
             _skipCodes, _lastQueueSize, _counters, _batchesCrawled, verbose,
             pc, batch, tasks, fetchLog, batchLog, sinkLog, allOk, file,
             completed>>

\* the output file and the fs operations on it
disk == <<file, completed>>

\* what the recursive calls pass on unchanged
args == <<anyTLD, ignoreQueryParams, ignoreCase, maxDepth, sequential>>

legacy == <<args, visited, counters, calls, requested>>

vars == <<crawler, legacy>>

config == <<site, seed, _maxConcurrentThreads, _anyTLD, _ignoreQueryParams,
            _ignoreCase, _skipCodes, verbose>>

(***************************************************************************)
(* extractLinks                                                            *)
(***************************************************************************)

\* the catch handler without the test on _skipCodes: every status is skipped
AxiosCatchSkipsAll(resp) ==
    IF resp.kind = "neterr"
    THEN [threw |-> TRUE, error |-> 0, skipped |-> 0]
    ELSE [threw |-> FALSE, error |-> 0, skipped |-> 1]

\* the handler of axios.get(url).catch: what it adds to error and skipped,
\* and whether it throws (an Error for a status outside the skip codes, a
\* TypeError when it reads error.response.status of an error without response)
AxiosCatch(resp) ==
    IF resp.kind = "status" /\ resp.status \notin Range(_skipCodes)
    THEN [threw |-> TRUE, error |-> 1, skipped |-> 0]
    ELSE IF resp.kind = "neterr"
         THEN [threw |-> TRUE, error |-> 0, skipped |-> 0]
         ELSE [threw |-> FALSE, error |-> 0, skipped |-> 1]

\* .filter((href) => href && !href.startsWith("#"))
NonFragment(hrefs) == SelectSeq(hrefs, LAMBDA h : h # << >> /\ Head(h) # "#")

\* extractLinks without the filter on the link's domain
SameDomainUnfiltered(u) == TRUE

\* the filter on the link's domain
SameDomain(u) == DomainOf(_anyTLD, u) = _baseDomain

\* the chain from $("a[href]") to .map((href) => href.href)
PageLinks(url) ==
    LET kept == NonFragment(Hrefs(site, url))
        resolved == [i \in DOMAIN kept |-> Resolve(kept[i], url)]
    IN  SelectSeq(SelectSeq(resolved, IsHttp), SameDomain)

\* new URL(href, url) throws for some href of the page
ExtractionThrows(url) ==
    \E i \in DOMAIN NonFragment(Hrefs(site, url)) :
        Unparseable(NonFragment(Hrefs(site, url))[i])

\* the catch block of extractLinks: count the error and return no links
OuterCatch(error, skipped) ==
    [links |-> << >>, error |-> error + 1, skipped |-> skipped,
     rejected |-> FALSE]

\* extractLinks(url) once axios.get has settled with resp: the links it
\* returns, what it adds to the counters, and whether its promise rejects
ExtractLinks(url, resp) ==
    LET got == IF resp.kind \in {"ok", "empty"}
               THEN [threw |-> FALSE, error |-> 0, skipped |-> 0]
               ELSE AxiosCatch(resp)
    IN  IF got.threw THEN OuterCatch(got.error, got.skipped)
        ELSE IF resp.kind # "ok"
        THEN [links |-> << >>, error |-> got.error,
              skipped |-> got.skipped + 1, rejected |-> FALSE]
        ELSE IF ExtractionThrows(url) THEN OuterCatch(got.error, got.skipped)
        ELSE [links |-> PageLinks(url), error |-> got.error,
              skipped |-> got.skipped, rejected |-> FALSE]

\* the counters with crawled++ at the end of the try block instead of finally
CountedInTry(c, r) ==
    [crawled |-> c.crawled + (IF r.error = 0 THEN 1 ELSE 0),
     skipped |-> c.skipped + r.skipped,
     error |-> c.error + r.error]

\* the counters after one extractLinks call; finally { crawled++ }
Counted(c, r) ==
    [crawled |-> c.crawled + 1,
     skipped |-> c.skipped + r.skipped,
     error |-> c.error + r.error]

(***************************************************************************)
(* push and takeAndRemove                                                  *)
(***************************************************************************)

\* the normalisation of push without the cut at the first "?"
NormalizeKeepsQuery(url) == IF _ignoreCase THEN toLowerCase(url) ELSE url

\* the normalisation push applies to its argument
Normalize(url) ==
    LET cased == IF _ignoreCase THEN toLowerCase(url) ELSE url
    IN  IF _ignoreQueryParams THEN SplitQuery(cased) ELSE cased

\* push without the test on _alreadyCrawled
PushUnchecked(q, url) == SetAdd(q, Normalize(url))

\* push(url) on queue q
Push(q, url) ==
    IF Normalize(url) \in Range(_alreadyCrawled) THEN q
    ELSE SetAdd(q, Normalize(url))

RECURSIVE PushAll(_, _)
\* links.forEach((link) => this.push(link))
PushAll(q, links) ==
    IF links = << >> THEN q
    ELSE PushAll(Push(q, Head(links)), Tail(links))

\* takeAndRemove breaking on result.length > _maxConcurrentThreads
TakenOffByOne(q) ==
    LET fits == {n \in 0..Len(q) : n > _maxConcurrentThreads \/ n = Len(q)}
    IN  SubSeq(q, 1, CHOOSE n \in fits : \A m \in fits : n <= m)

\* the result of takeAndRemove: items are taken in iteration order until
\* result.length >= _maxConcurrentThreads
Taken(q) ==
    LET fits == {n \in 0..Len(q) : n >= _maxConcurrentThreads \/ n = Len(q)}
    IN  SubSeq(q, 1, CHOOSE n \in fits : \A m \in fits : n <= m)

\* takeAndRemove without this._queue.delete(item)
RemainingUndeleted(q, taken) == q

\* the queue once takeAndRemove has deleted the taken items
Remaining(q, taken) == SelectSeq(q, LAMBDA x : x \notin Range(taken))

\* takeAndRemove without this._alreadyCrawled.add(item)
AdmittedNothing(done, taken) == done

RECURSIVE Admitted(_, _)
\* _alreadyCrawled once takeAndRemove has added the taken items
Admitted(done, taken) ==
    IF taken = << >> THEN done
    ELSE Admitted(SetAdd(done, Head(taken)), Tail(taken))

(***************************************************************************)
(* Construction                                                            *)
(***************************************************************************)

MaxThreads == 2

\* process.env.SKIP_CODES: unset, or "404" already split and mapped to numbers
SkipCodesUnset == [set |-> FALSE, codes |-> << >>]

SkipCodesEnv == {SkipCodesUnset, [set |-> TRUE, codes |-> <<404>>]}

\* the constructor's assignment, which replaces the field initialiser [404]:
\* process.env.SKIP_CODES?.split(",").map(Number) || []
SkipCodes(env) == IF env.set THEN env.codes ELSE << >>

\* the legacy function has not been called
NoLegacyCall ==
    /\ anyTLD = FALSE
    /\ ignoreQueryParams = FALSE
    /\ ignoreCase = FALSE
    /\ maxDepth = 0
    /\ visited = << >>
    /\ counters = << >>
    /\ calls = << >>
    /\ requested = << >>
    /\ sequential = FALSE

\* new Crawler(anyTLD, ignoreQueryParams, ignoreCase) under an environment
\* that sets MAX_CONCURRENT_THREADS, SKIP_CODES and VERBOSE
\* a constructed Crawler, whatever MAX_CONCURRENT_THREADS was parsed to
Constructed ==
    /\ site \in Sites
    /\ seed = SeedOf(site)
    /\ _anyTLD \in BOOLEAN
    /\ _ignoreQueryParams \in BOOLEAN
    /\ _ignoreCase \in BOOLEAN
    /\ _skipCodes \in {SkipCodes(env) : env \in SkipCodesEnv}
    /\ verbose \in BOOLEAN
    /\ _queue = << >>
    /\ _alreadyCrawled = << >>
    /\ _baseDomain = Null
    /\ _lastQueueSize = 0
    /\ _counters = [crawled |-> 0, skipped |-> 0, error |-> 0]
    /\ _batchesCrawled = 0
    /\ pc = "idle"
    /\ batch = << >>
    /\ tasks = << >>
    /\ fetchLog = << >>
    /\ batchLog = << >>
    /\ sinkLog = << >>
    /\ allOk = TRUE
    /\ file = << >>
    /\ completed = {}

InitCrawler ==
    /\ _maxConcurrentThreads \in 1..MaxThreads
    /\ Constructed

Init == InitCrawler /\ NoLegacyCall

(***************************************************************************)
(* crawl(url)                                                              *)
(***************************************************************************)

\* crawl(url) up to its first await: the base domain is computed (a null one
\* is logged) and extractLinks(url) issues axios.get(url)
Crawl ==
    /\ pc = "idle"
    /\ _baseDomain' = DomainOf(_anyTLD, seed)
    /\ fetchLog' = Append(fetchLog, seed)
    /\ pc' = "seed"
    /\ UNCHANGED <<legacy, disk, config, _queue, _alreadyCrawled, _lastQueueSize, _counters,
                   _batchesCrawled, batch, tasks, batchLog, sinkLog, allOk>>

\* the seed's fetch settles: extractLinks returns, its links are pushed and
\* _batchesCrawled++; a rejected extractLinks rejects crawl()
SeedSettled ==
    /\ pc = "seed"
    /\ \E resp \in Responses :
         LET r == ExtractLinks(seed, resp)
         IN  /\ _counters' = Counted(_counters, r)
             /\ allOk' = (allOk /\ resp.kind = "ok")
             /\ IF r.rejected
                THEN /\ pc' = "rejected"
                     /\ UNCHANGED <<_queue, _batchesCrawled>>
                ELSE /\ pc' = "loop"
                     /\ _queue' = PushAll(_queue, r.links)
                     /\ _batchesCrawled' = _batchesCrawled + 1
    /\ UNCHANGED <<legacy, disk, config, _alreadyCrawled, _baseDomain, _lastQueueSize,
                   batch, tasks, fetchLog, batchLog, sinkLog>>

\* takeAndRemove past batchStatus, which leaves _lastQueueSize alone when
\* VERBOSE is off, and the start of the callbacks of batch.map
StartTasks ==
    /\ LET taken == Taken(_queue)
       IN  /\ batch' = taken
           /\ _lastQueueSize' = _lastQueueSize
           /\ _queue' = Remaining(_queue, taken)
           /\ _alreadyCrawled' = Admitted(_alreadyCrawled, taken)
           /\ tasks' = tasks \o
                  [i \in DOMAIN taken |->
                      [url |-> taken[i], batchNo |-> Len(batchLog) + 1,
                       st |-> "fetching", resp |-> NoResponse,
                       links |-> << >>, error |-> 0, skipped |-> 0]]
           /\ fetchLog' = fetchLog \o taken
           /\ batchLog' = Append(batchLog, taken)
    /\ pc' = "batch"

\* batchStatus with VERBOSE on: its first logging call is logger.divide(),
\* and the logger object has no member divide (hr, log, info, warn, err and
\* verbose only), so the call throws a TypeError
BatchStatusThrows == verbose

\* one iteration of the while loop up to its await: takeAndRemove (with its
\* batchStatus call) and the synchronous start of every callback of batch.map,
\* each issuing axios.get; when batchStatus throws, nothing has been deleted
\* from the queue yet and crawl() rejects
StartBatch ==
    /\ pc = "loop"
    /\ Len(_queue) > 0
    /\ IF BatchStatusThrows
       THEN /\ pc' = "rejected"
            /\ UNCHANGED <<batch, _lastQueueSize, _queue, _alreadyCrawled,
                           tasks, fetchLog, batchLog>>
       ELSE StartTasks
    /\ UNCHANGED <<legacy, disk, config, _baseDomain, _counters, _batchesCrawled, sinkLog,
                   allOk>>

\* the fetch of task i settles and its extractLinks call returns or rejects
TaskSettled(i) ==
    /\ tasks[i].st = "fetching"
    /\ \E resp \in Responses :
         LET r == ExtractLinks(tasks[i].url, resp)
         IN  /\ _counters' = Counted(_counters, r)
             /\ allOk' = (allOk /\ resp.kind = "ok")
             /\ tasks' = [tasks EXCEPT
                    ![i].st = IF r.rejected THEN "rejected" ELSE "extracted",
                    ![i].resp = resp,
                    ![i].links = r.links,
                    ![i].error = r.error,
                    ![i].skipped = r.skipped]
    /\ UNCHANGED <<legacy, disk, config, _queue, _alreadyCrawled, _baseDomain,
                   _lastQueueSize, _batchesCrawled, pc, batch, fetchLog,
                   batchLog, sinkLog>>

\* task i resumes after its await: links.forEach((link) => this.push(link))
TaskPushed(i) ==
    /\ tasks[i].st = "extracted"
    /\ _queue' = PushAll(_queue, tasks[i].links)
    /\ tasks' = [tasks EXCEPT ![i].st = "done"]
    /\ UNCHANGED <<legacy, disk, config, _alreadyCrawled, _baseDomain, _lastQueueSize,
                   _counters, _batchesCrawled, pc, batch, fetchLog, batchLog,
                   sinkLog, allOk>>

\* the callbacks batch.map started for the batch of this iteration
BatchTasks == {i \in DOMAIN tasks : tasks[i].batchNo = Len(batchLog)}

\* Promise.race in place of Promise.all: settled with the first task
PromiseRace ==
    IF \E i \in BatchTasks : tasks[i].st = "rejected" THEN "rejected"
    ELSE IF \E i \in BatchTasks : tasks[i].st = "done" THEN "fulfilled"
    ELSE "pending"

\* Promise.all(batch.map(...)): fulfilled once every task of the batch is
\* done, rejected as soon as one of them has rejected
PromiseAll ==
    IF \E i \in BatchTasks : tasks[i].st = "rejected" THEN "rejected"
    ELSE IF \A i \in BatchTasks : tasks[i].st = "done" THEN "fulfilled"
    ELSE "pending"

\* crawl() resumes after await Promise.all: the batch is appended to the out
\* file and _batchesCrawled++, or crawl() rejects
BatchSettled ==
    /\ pc = "batch"
    /\ PromiseAll # "pending"
    /\ IF PromiseAll = "rejected"
       THEN /\ pc' = "rejected"
            /\ UNCHANGED <<sinkLog, _batchesCrawled>>
       ELSE /\ pc' = "loop"
            /\ sinkLog' = Append(sinkLog, [op |-> "append",
                                           urls |-> sortAndFilterUrls(batch)])
            /\ _batchesCrawled' = _batchesCrawled + 1
    /\ UNCHANGED <<legacy, disk, config, _queue, _alreadyCrawled, _baseDomain,
                   _lastQueueSize, _counters, batch, tasks, fetchLog,
                   batchLog, allOk>>

\* the while loop ends on an empty queue: status(true), urlsToFile of the
\* sorted _alreadyCrawled, return this._alreadyCrawled
Finish ==
    /\ pc = "loop"
    /\ Len(_queue) = 0
    /\ sinkLog' = Append(sinkLog, [op |-> "write",
                                   urls |-> sortAndFilterUrls(_alreadyCrawled)])
    /\ pc' = "done"
    /\ UNCHANGED <<legacy, disk, config, _queue, _alreadyCrawled, _baseDomain,
                   _lastQueueSize, _counters, _batchesCrawled, batch, tasks,
                   fetchLog, batchLog, allOk>>

RECURSIVE Join(_)
\* data.join("\n")
Join(data) ==
    IF data = << >> THEN << >>
    ELSE IF Len(data) = 1 THEN data[1]
    ELSE data[1] \o <<"\n">> \o Join(Tail(data))

\* the file after fs.writeFile or fs.appendFile for call op of the sink
Written(content, op) ==
    IF op.op = "write" THEN Join(op.urls)
    ELSE content \o Join(op.urls) \o <<"\n">>

\* the fs operation started by call k of the sink completes; the operations
\* are handed to the thread pool and complete in any order
FileOpCompletes(k) ==
    /\ k \notin completed
    /\ file' = Written(file, sinkLog[k])
    /\ completed' = completed \cup {k}
    /\ UNCHANGED <<legacy, config, _queue, _alreadyCrawled, _baseDomain,
                   _lastQueueSize, _counters, _batchesCrawled, pc, batch,
                   tasks, fetchLog, batchLog, sinkLog, allOk>>

Next ==
    \/ Crawl
    \/ SeedSettled
    \/ StartBatch
    \/ \E i \in DOMAIN tasks : TaskSettled(i)
    \/ \E i \in DOMAIN tasks : TaskPushed(i)
    \/ BatchSettled
    \/ Finish

Spec == Init /\ [][Next]_vars

\* a crawler constructed with VERBOSE unset and SKIP_CODES=404, whose crawl
\* gets past batchStatus
InitQuiet == Init /\ ~verbose /\ _skipCodes = <<404>>

\* a crawler constructed with SKIP_CODES=404
InitFair == Init /\ _skipCodes = <<404>>

\* the event loop runs every callback that is ready, and every fetch settles
FairSpec == InitFair /\ [][Next]_vars /\ WF_vars(Next)

(***************************************************************************)
(* crawl(url) called again on the same instance                            *)
(***************************************************************************)

MaxCrawls == 2

\* the crawl() calls that have returned: each ends with one urlsToFile
CrawlsReturned ==
    Cardinality({k \in DOMAIN sinkLog : sinkLog[k].op = "write"})

\* crawl(url) up to its first await, on an instance whose earlier crawl()
\* has returned: the same statements as Crawl, none of which assigns _queue,
\* _alreadyCrawled, _counters or _batchesCrawled
CrawlAgain ==
    /\ pc = "done"
    /\ CrawlsReturned < MaxCrawls
    /\ _baseDomain' = DomainOf(_anyTLD, seed)
    /\ fetchLog' = Append(fetchLog, seed)
    /\ pc' = "seed"
    /\ UNCHANGED <<legacy, disk, config, _queue, _alreadyCrawled, _lastQueueSize, _counters,
                   _batchesCrawled, batch, tasks, batchLog, sinkLog, allOk>>

NextAgain ==
    \/ Next
    \/ CrawlAgain

\* an instance that is given the seed of the first site again
InitAgain == InitQuiet /\ site = SiteExample

SpecAgain == InitAgain /\ [][NextAgain]_vars

(***************************************************************************)
(* push(url) on arbitrary strings                                          *)
(***************************************************************************)

MaxLen == 2

MaxPushed == 2

\* the characters of the strings pushed: a letter in both cases and "?"
Alphabet == {"a", "A", "?"}

\* every string of at most MaxLen characters
PushInputs == UNION {[1..n -> Alphabet] : n \in 0..MaxLen}

\* push(url) called on a newly constructed instance
PushInput ==
    /\ pc = "idle"
    /\ Len(_queue) < MaxPushed
    /\ \E url \in PushInputs : _queue' = Push(_queue, url)
    /\ UNCHANGED <<legacy, disk, config, _alreadyCrawled, _baseDomain, _lastQueueSize,
                   _counters, _batchesCrawled, pc, batch, tasks, fetchLog,
                   batchLog, sinkLog, allOk>>

NextPush == PushInput

SpecPush == InitAgain /\ [][NextPush]_vars

(***************************************************************************)
(* sortAndFilterUrls(urls) on arbitrary arrays                             *)
(***************************************************************************)

MaxSorted == 3

\* every array of at most MaxSorted URLs of SortPool, repeats included
SortInputs == UNION {[1..n -> SortPool] : n \in 0..MaxSorted}

\* the array is held in batch, as in crawl(); nothing has been sorted yet
InitSort ==
    /\ site = SiteExample
    /\ seed = SeedOf(site)
    /\ _maxConcurrentThreads = MaxThreads
    /\ _anyTLD = FALSE
    /\ _ignoreQueryParams = FALSE
    /\ _ignoreCase = FALSE
    /\ _skipCodes = << >>
    /\ verbose = FALSE
    /\ _queue = << >>
    /\ _alreadyCrawled = << >>
    /\ _baseDomain = Null
    /\ _lastQueueSize = 0
    /\ _counters = [crawled |-> 0, skipped |-> 0, error |-> 0]
    /\ _batchesCrawled = 0
    /\ pc = "idle"
    /\ batch \in SortInputs
    /\ tasks = << >>
    /\ fetchLog = << >>
    /\ batchLog = << >>
    /\ sinkLog = << >>
    /\ allOk = TRUE
    /\ file = << >>
    /\ completed = {}
    /\ NoLegacyCall

\* appendUrlsToFile(outFile, sortAndFilterUrls(batch)) for the array
SortCall ==
    /\ pc = "idle"
    /\ sinkLog = << >>
    /\ sinkLog' = <<[op |-> "append", urls |-> sortAndFilterUrls(batch)]>>
    /\ UNCHANGED <<legacy, disk, config, _queue, _alreadyCrawled, _baseDomain,
                   _lastQueueSize, _counters, _batchesCrawled, pc, batch,
                   tasks, fetchLog, batchLog, allOk>>

NextSort == SortCall

SpecSort == InitSort /\ [][NextSort]_vars

\* a crawl with OUT_FILE set, and the fs operations it starts
NextFile ==
    \/ Next
    \/ \E k \in DOMAIN sinkLog : FileOpCompletes(k)

InitFile == InitQuiet /\ site = SiteExample

SpecFile == InitFile /\ [][NextFile]_vars

\* the batches a crawl is followed for
MaxBatches == 4

\* parseInt(process.env.MAX_CONCURRENT_THREADS) is any integer
ThreadCounts == (0 - MaxThreads)..MaxThreads

InitThreads ==
    /\ _maxConcurrentThreads \in ThreadCounts
    /\ Constructed
    /\ NoLegacyCall
    /\ ~verbose
    /\ _skipCodes = <<404>>
    /\ site = SiteExample

NextThreads == Len(batchLog) < MaxBatches /\ Next

SpecThreads == InitThreads /\ [][NextThreads]_vars

(***************************************************************************)
(* The legacy engine: the recursive function crawl, exported as crawlLegacy *)
(***************************************************************************)

MaxDepth == 2

\* crawlLegacy(url, anyTLD, ignoreQueryParams, ignoreCase, maxDepth) on a site
InitLegacy ==
    /\ site \in LegacySites
    /\ seed = SeedOf(site)
    /\ _maxConcurrentThreads = 1
    /\ _anyTLD = FALSE
    /\ _ignoreQueryParams = FALSE
    /\ _ignoreCase = FALSE
    /\ _skipCodes = << >>
    /\ verbose = FALSE
    /\ _queue = << >>
    /\ _alreadyCrawled = << >>
    /\ _baseDomain = Null
    /\ _lastQueueSize = 0
    /\ _counters = [crawled |-> 0, skipped |-> 0, error |-> 0]
    /\ _batchesCrawled = 0
    /\ pc = "idle"
    /\ batch = << >>
    /\ tasks = << >>
    /\ fetchLog = << >>
    /\ batchLog = << >>
    /\ sinkLog = << >>
    /\ allOk = TRUE
    /\ file = << >>
    /\ completed = {}
    /\ anyTLD \in BOOLEAN
    /\ ignoreQueryParams \in BOOLEAN
    /\ ignoreCase \in BOOLEAN
    /\ maxDepth \in 0..MaxDepth
    /\ sequential \in BOOLEAN
    /\ visited = << >>
    /\ counters = << >>
    /\ calls = << >>
    /\ requested = << >>

\* the chain from $("a[href]") to the map that cuts the query off
LegacyHrefs(url) ==
    LET kept == NonFragment(Hrefs(site, url))
        resolved == [i \in DOMAIN kept |-> Resolve(kept[i], url)]
        sameDomain(u) == DomainOf(anyTLD, u) = DomainOf(anyTLD, url)
        onDomain == SelectSeq(SelectSeq(resolved, IsHttp), sameDomain)
    IN  [i \in DOMAIN onDomain |->
            IF ignoreQueryParams THEN SplitQuery(onDomain[i])
            ELSE onDomain[i]]

\* the links a call on url hands to its recursive calls: the chain from
\* $("a[href]") to .filter((href) => !visited.has(href)), a filter the
\* sequential variant does not have
LegacyLinks(url) ==
    LET unseen(u) == sequential \/ u \notin Range(visited)
    IN  SelectSeq(LegacyHrefs(url), unseen)

\* a call on url once axios.get has settled with resp: what it adds to the
\* counters and the links it recurses into
LegacyOutcome(url, resp) ==
    CASE resp.kind = "status" /\ resp.status # 404 ->
             [links |-> << >>, crawled |-> 0, skipped |-> 0, error |-> 2]
      [] resp.kind \in {"status", "neterr"} ->
             [links |-> << >>, crawled |-> 0, skipped |-> 2, error |-> 0]
      [] resp.kind = "empty" ->
             [links |-> << >>, crawled |-> 0, skipped |-> 1, error |-> 0]
      [] OTHER ->
             IF ExtractionThrows(url)
             THEN [links |-> << >>, crawled |-> 0, skipped |-> 0, error |-> 1]
             ELSE [links |-> LegacyLinks(url), crawled |-> 1, skipped |-> 0,
                   error |-> 0]

\* a call that works on its url as given
LegacyUrlAsGiven(url) == url

\* the url a call works on: url.toLowerCase() when ignoreCase
LegacyUrl(url) == IF ignoreCase THEN toLowerCase(url) ELSE url

\* the guard without depth > maxDepth
LegacyGuardVisitedOnly(url, depth) == url \in Range(visited)

\* the guard without visited.has(url)
LegacyGuardDepthOnly(url, depth) == depth > maxDepth

\* the guard of a call: depth > maxDepth || visited.has(url)
LegacyGuard(url, depth) == depth > maxDepth \/ url \in Range(visited)

\* a counters object nothing was added to
NoCount == [crawled |-> 0, skipped |-> 0, error |-> 0]

\* c with the increments of r
Plus(c, r) == [crawled |-> c.crawled + r.crawled,
               skipped |-> c.skipped + r.skipped,
               error |-> c.error + r.error]

\* a call that is handed a copy of its caller's counters: heap is the
\* counters objects there are, ref the caller's
PassCountersCopy(heap, ref) == [heap |-> Append(heap, heap[ref]),
                                ref |-> Len(heap) + 1]

\* the counters argument of a recursive call: the caller's own object
PassCounters(heap, ref) == [heap |-> heap, ref |-> ref]

\* the counters default parameter of the outermost call: a new object
NewCounters(heap) == [heap |-> Append(heap, NoCount), ref |-> Len(heap) + 1]

\* call j of cs has returned { counters, ... }: its caller, awaiting it,
\* goes on with counters = result.counters
Returned(cs, j) ==
    IF cs[j].parent = 0 THEN cs
    ELSE [cs EXCEPT ![cs[j].parent].ref = cs[j].ref]

\* crawl(url, ..., depth, visited, counters) from its first statement to its
\* first await or return, called from call number parent (0: from outside);
\* others are the calls made before it
LegacyEnter(url, depth, parent, passed, others) ==
    LET u == LegacyUrl(url)
        call == [url |-> u, depth |-> depth, parent |-> parent,
                 todo |-> << >>, ref |-> passed.ref, own |-> NoCount]
    IN  /\ counters' = passed.heap
        /\ IF LegacyGuard(u, depth)
           THEN /\ calls' = Returned(Append(others,
                                 call @@ [st |-> "returned", fetched |-> FALSE]),
                                 Len(others) + 1)
                /\ UNCHANGED <<visited, requested>>
           ELSE /\ calls' = Append(others, call @@ [st |-> "fetching",
                                                    fetched |-> TRUE])
                /\ visited' = SetAdd(visited, u)
                /\ requested' = Append(requested, u)

\* a call is inside links.map, making its recursive calls one after another
Spawning == \E i \in DOMAIN calls : calls[i].st = "spawning"

\* crawlLegacy(seed, ...) is called
LegacyCrawl ==
    /\ calls = << >>
    /\ LegacyEnter(seed, 0, 0, NewCounters(counters), calls)
    /\ UNCHANGED <<crawler, args>>

\* the fetch of call i settles: the counters are updated, and on success the
\* call goes on to links.map
LegacySettled(i) ==
    /\ ~Spawning
    /\ calls[i].st = "fetching"
    /\ \E resp \in Responses :
         LET r == LegacyOutcome(calls[i].url, resp)
             done == [calls EXCEPT
                    ![i].st = IF r.crawled = 0 THEN "returned"
                              ELSE IF r.links = << >> THEN "waiting"
                              ELSE IF sequential THEN "looping"
                              ELSE "spawning",
                    ![i].todo = r.links,
                    ![i].own = Plus(@, r)]
         IN  /\ counters' = [counters EXCEPT ![calls[i].ref] = Plus(@, r)]
             /\ calls' = IF r.crawled = 0 THEN Returned(done, i) ELSE done
    /\ UNCHANGED <<crawler, args,
                   visited, requested>>

\* links.map calls crawl(link, ..., depth + 1, ...) for the next link of call i
LegacySpawn(i) ==
    /\ calls[i].st = "spawning"
    /\ LegacyEnter(Head(calls[i].todo), calls[i].depth + 1, i,
                   PassCounters(counters, calls[i].ref),
                   [calls EXCEPT
                       ![i].todo = Tail(@),
                       ![i].st = IF Tail(calls[i].todo) = << >>
                                 THEN "waiting" ELSE "spawning"])
    /\ UNCHANGED <<crawler, args>>

\* the sequential variant: the recursive call call i awaited has returned
\* and its for loop calls crawl(link, ..., depth + 1, ...) for the next link
LegacyLoop(i) ==
    /\ calls[i].st = "looping"
    /\ \A j \in DOMAIN calls : calls[j].parent = i => calls[j].st = "returned"
    /\ LegacyEnter(Head(calls[i].todo), calls[i].depth + 1, i,
                   PassCounters(counters, calls[i].ref),
                   [calls EXCEPT
                       ![i].todo = Tail(@),
                       ![i].st = IF Tail(calls[i].todo) = << >>
                                 THEN "waiting" ELSE "looping"])
    /\ UNCHANGED <<crawler, args>>

\* Promise.all of call i fulfils once all its recursive calls have returned,
\* and call i returns
LegacyReturn(i) ==
    /\ ~Spawning
    /\ calls[i].st = "waiting"
    /\ \A j \in DOMAIN calls : calls[j].parent = i => calls[j].st = "returned"
    /\ calls' = Returned([calls EXCEPT ![i].st = "returned"], i)
    /\ UNCHANGED <<crawler, args,
                   visited, counters, requested>>

NextLegacy ==
    \/ LegacyCrawl
    \/ \E i \in DOMAIN calls : LegacySettled(i)
    \/ \E i \in DOMAIN calls : LegacySpawn(i)
    \/ \E i \in DOMAIN calls : LegacyLoop(i)
    \/ \E i \in DOMAIN calls : LegacyReturn(i)

SpecLegacy == InitLegacy /\ [][NextLegacy]_vars

\* every fetch settles and the event loop runs every continuation that is ready
FairSpecLegacy == InitLegacy /\ [][NextLegacy]_vars /\ WF_vars(NextLegacy)

(***************************************************************************)
(* Properties of the frontier engine                                       *)
(***************************************************************************)

\* the elements of a sequence are pairwise different
NoRepeats(q) == \A i, j \in DOMAIN q : i # j => q[i] # q[j]

RECURSIVE Flatten(_)
\* the concatenation of a sequence of sequences
Flatten(qs) == IF qs = << >> THEN << >> ELSE Head(qs) \o Flatten(Tail(qs))

\* fetch+extract operations in flight: the seed's, and every started task
\* that has not yet pushed its links
InFlight ==
    (IF pc = "seed" THEN 1 ELSE 0)
    + Cardinality({i \in DOMAIN tasks : tasks[i].st \in {"fetching", "extracted"}})

\* C1: over a whole crawl no URL is handed to fetch+extract twice, the direct
\* fetch of the seed counted with the batch fetches
C1_NoUrlFetchedTwice == NoRepeats(fetchLog)

\* C2: a URL that takeAndRemove has returned in a batch is in no later batch
\* (nor twice in the same one), whatever order the tasks push their links in
C2_OneBatchPerUrl == NoRepeats(Flatten(batchLog))

\* C2 witness: a second batch is under way and a task has pushed a link whose
\* normal form an earlier batch already held
C2_Witness ==
    /\ Len(batchLog) >= 2
    /\ \E i \in DOMAIN tasks :
         /\ tasks[i].st = "done"
         /\ \E k \in DOMAIN tasks[i].links :
              Normalize(tasks[i].links[k]) \in Range(Flatten(batchLog))

\* C3: Frontier and VisitedSet are disjoint in every state
C3_FrontierVisitedDisjoint == Range(_queue) \cap Range(_alreadyCrawled) = {}

\* C3 witness: the middle of a batch: one task has pushed links that are now
\* in the Frontier while another task of the same batch is still fetching
C3_Witness ==
    /\ pc = "batch"
    /\ \E i, j \in BatchTasks :
         /\ tasks[i].st = "done"
         /\ tasks[j].st = "fetching"
         /\ \E k \in DOMAIN tasks[i].links :
              Normalize(tasks[i].links[k]) \in Range(_queue)
    /\ _alreadyCrawled # << >>

\* the normalised same-domain links of the page served at u
Successors(u) ==
    IF ExtractionThrows(u) THEN {}
    ELSE {Normalize(PageLinks(u)[k]) : k \in DOMAIN PageLinks(u)}

RECURSIVE Closure(_)
\* the least set holding S that is closed under Successors
Closure(S) ==
    LET T == S \cup UNION {Successors(u) : u \in S}
    IN  IF T = S THEN S ELSE Closure(T)

\* the same-domain URLs reachable from the seed, the seed included
Reachable == Closure({Normalize(seed)} \cup Successors(seed))

\* C4: when every fetch succeeds, the VisitedSet crawl returns at Done is
\* exactly the set of same-domain URLs reachable from the seed, seed included
C4_VisitedIsReachable ==
    (pc = "done" /\ allOk /\ _baseDomain # Null)
        => Range(_alreadyCrawled) = Reachable

\* the normalised URLs of the site that are on the seed's domain: the seed,
\* every page and every link of a page
GraphUrls ==
    LET onDomain(u) ==
            IsHttp(u) /\ DomainOf(_anyTLD, u) = DomainOf(_anyTLD, seed)
        linksOf(p) ==
            {Resolve(NonFragment(site[p])[k], p) :
                k \in {j \in DOMAIN NonFragment(site[p]) :
                          ~Unparseable(NonFragment(site[p])[j])}}
        all == {seed} \cup DOMAIN site \cup UNION {linksOf(p) : p \in DOMAIN site}
    IN  {Normalize(u) : u \in {v \in all : onDomain(v)}}

SinkHasResult ==
    /\ sinkLog # << >>
    /\ sinkLog[Len(sinkLog)] =
           [op |-> "write", urls |-> sortAndFilterUrls(_alreadyCrawled)]

\* C6: whatever the fetches settle with, a crawl from a seed with a valid
\* BaseDomain reaches Done and hands the VisitedSet to the sink
C6_CrawlCompletes ==
    (DomainOf(_anyTLD, seed) # Null) => <>(pc = "done" /\ SinkHasResult)


\* C7: at most maxConcurrentThreads fetch+extract operations are in flight,
\* and no batch holds more than maxConcurrentThreads URLs
C7_ParallelismBound ==
    /\ InFlight <= _maxConcurrentThreads
    /\ \A b \in DOMAIN batchLog : Len(batchLog[b]) <= _maxConcurrentThreads

\* C7 witness: a full batch of two fetches in flight while the Frontier
\* still holds URLs for a later batch
C7_Witness ==
    /\ pc = "batch"
    /\ _maxConcurrentThreads >= 2
    /\ InFlight = _maxConcurrentThreads
    /\ Len(_queue) > 0

\* C8: every task in flight belongs to the latest batch: a batch is formed
\* only once all tasks of the batch before it have settled
C8_NoBatchOverlap ==
    \A i \in DOMAIN tasks :
        tasks[i].st \in {"fetching", "extracted"}
            => tasks[i].batchNo = Len(batchLog)

\* C8 witness: a batch is in flight after an earlier batch of which one task
\* failed and another succeeded
C8_Witness ==
    /\ pc = "batch"
    /\ \E i, j, k \in DOMAIN tasks :
         /\ tasks[i].batchNo = tasks[j].batchNo
         /\ tasks[i].batchNo < Len(batchLog)
         /\ tasks[i].error > 0
         /\ tasks[j].error = 0
         /\ tasks[k].batchNo = Len(batchLog)
         /\ tasks[k].st = "fetching"

\* C9: every URL in the Frontier or the VisitedSet, and every URL fetched,
\* has the domain computed from the seed, which is the BaseDomain
C9_DomainFilter ==
    /\ pc # "idle" => _baseDomain = DomainOf(_anyTLD, seed)
    /\ \A u \in Range(_queue) \cup Range(_alreadyCrawled) \cup Range(fetchLog) :
         DomainOf(_anyTLD, u) = DomainOf(_anyTLD, seed)

\* C9 witness: a task has pushed the links of a page that also carries an
\* http link to another domain
C9_Witness ==
    \E i \in DOMAIN tasks :
        /\ tasks[i].st = "done"
        /\ tasks[i].links # << >>
        /\ \E k \in DOMAIN NonFragment(Hrefs(site, tasks[i].url)) :
             LET u == Resolve(NonFragment(Hrefs(site, tasks[i].url))[k],
                              tasks[i].url)
             IN  IsHttp(u) /\ DomainOf(_anyTLD, u) # _baseDomain

\* C10: with a null BaseDomain crawl aborts before any fetch: nothing is
\* fetched, nothing enters Frontier or VisitedSet, the counters stay zero
C10_InvalidSeedAborts ==
    (pc # "idle" /\ DomainOf(_anyTLD, seed) = Null)
        => /\ fetchLog = << >>
           /\ _queue = << >>
           /\ _alreadyCrawled = << >>
           /\ _counters = [crawled |-> 0, skipped |-> 0, error |-> 0]

(***************************************************************************)
(* Counters                                                                *)
(***************************************************************************)

\* batch task i of a crawl with a valid seed receives the outcome of its fetch
\* in this step
Settles(i) ==
    /\ _baseDomain # Null
    /\ tasks[i].st = "fetching"
    /\ tasks'[i].st # "fetching"

\* the fetch of batch task i ended with an HTTP error status in the skip set
SkippedStatus(t) ==
    t.resp.kind = "status" /\ t.resp.status \in Range(_skipCodes)

\* C11: processing one URL whose fetch returns a status of the skip set adds
\* exactly 1 to skipped, leaves error unchanged and adds nothing to the queue
C11_SkipCountsOnce ==
    [][\A i \in DOMAIN tasks :
         (Settles(i) /\ SkippedStatus(tasks'[i]))
         => /\ _counters'.skipped = _counters.skipped + 1
            /\ _counters'.error = _counters.error
            /\ _queue' = _queue]_vars

\* the crawler was constructed with SKIP_CODES unset
Unconfigured == _skipCodes = SkipCodes(SkipCodesUnset)

\* C12: a crawler constructed without SKIP_CODES classifies a 404 as skipped:
\* skipped grows and error does not
C12_DefaultSkips404 ==
    [][\A i \in DOMAIN tasks :
         (Unconfigured /\ Settles(i) /\ tasks'[i].resp.kind = "status"
          /\ tasks'[i].resp.status = 404)
         => /\ _counters'.skipped > _counters.skipped
            /\ _counters'.error = _counters.error]_vars

\* the extractLinks calls that have returned: the seed's and the batch tasks'
SeedCalls == IF pc \in {"idle", "seed"} THEN 0 ELSE 1

TaskCalls == Cardinality({i \in DOMAIN tasks : tasks[i].st # "fetching"})

\* C13: crawled has been incremented exactly once for every URL whose
\* extractLinks call has returned, whatever the outcome of the call
C13_CrawledOncePerUrl == _counters.crawled = SeedCalls + TaskCalls

\* a finished crawl with a task that ended in an error and one that was skipped
C13_Witness ==
    /\ pc = "done"
    /\ \E i \in DOMAIN tasks : tasks[i].error > 0
    /\ \E i \in DOMAIN tasks : tasks[i].skipped > 0
    /\ _counters.crawled = Len(tasks) + 1

\* the extractLinks call of settled task t failed: a transport error, an HTTP
\* status outside the skip set, or new URL throwing during extraction
Failed(t) ==
    \/ t.resp.kind = "neterr"
    \/ t.resp.kind = "status" /\ t.resp.status \notin Range(_skipCodes)
    \/ t.resp.kind = "ok" /\ ExtractionThrows(t.url)

\* the batch task t belongs to has been awaited
BatchOver(t) == pc # "batch" \/ t.batchNo < Len(batchLog)

\* every link task t returned went through push
LinksPushed(t) ==
    \A k \in DOMAIN t.links :
        Normalize(t.links[k]) \in Range(_queue) \cup Range(_alreadyCrawled)

\* a failure stays inside its task: no task promise rejects, and once the
\* batch is over every other task of it is done with its links pushed
FailureContained ==
    /\ \A i \in DOMAIN tasks : tasks[i].st # "rejected"
    /\ \A i, j \in DOMAIN tasks :
         (i # j /\ tasks[j].batchNo = tasks[i].batchNo
          /\ BatchOver(tasks[i]) /\ Failed(tasks[i]))
         => /\ tasks[j].st = "done"
            /\ LinksPushed(tasks[j])
            /\ (tasks[j].resp.kind = "ok" /\ ~ExtractionThrows(tasks[j].url))
               => tasks[j].links = PageLinks(tasks[j].url)

\* C14: a batch task whose fetch fails or whose extraction throws raises error
\* and not skipped and returns no links, and the other tasks of its batch
\* still complete and have their links pushed
C14_FailureIsolated ==
    [][/\ FailureContained'
       /\ \A i \in DOMAIN tasks :
            (Settles(i) /\ Failed(tasks'[i]))
            => /\ _counters'.error > _counters.error
               /\ _counters'.skipped = _counters.skipped
               /\ tasks'[i].links = << >>]_vars

\* a batch of two is over: one task failed, the other returned links
C14_Witness ==
    /\ _baseDomain # Null
    /\ \E i, j \in DOMAIN tasks :
         /\ i # j
         /\ tasks[j].batchNo = tasks[i].batchNo
         /\ BatchOver(tasks[i])
         /\ Failed(tasks[i])
         /\ tasks[i].error > 0
         /\ tasks[j].st = "done"
         /\ tasks[j].links # << >>

(***************************************************************************)
(* Reuse of an instance                                                    *)
(***************************************************************************)

\* C15: when a crawl() call starts, on a fresh instance or on one that has
\* already completed a crawl, the counters are zero and the queue and the
\* visited set are empty
C15_FreshStateEachCrawl ==
    (pc = "seed")
    => /\ _counters = [crawled |-> 0, skipped |-> 0, error |-> 0]
       /\ _queue = << >>
       /\ _alreadyCrawled = << >>

(***************************************************************************)
(* Counters of a crawl without failures                                    *)
(***************************************************************************)

\* every axios.get of the crawl answered 200 with a body, and every page
\* loaded had only hrefs that new URL accepts
EveryFetchSucceeded ==
    /\ allOk
    /\ \A k \in DOMAIN fetchLog : ~ExtractionThrows(fetchLog[k])

\* C16: when crawl() of a valid seed has returned and every fetch succeeded,
\* crawled equals the size of the visited set and skipped and error are zero
C16_CountersMatchVisited ==
    (pc = "done" /\ _baseDomain # Null /\ EveryFetchSucceeded)
    => /\ _counters.crawled = Len(_alreadyCrawled)
       /\ _counters.skipped = 0
       /\ _counters.error = 0

(***************************************************************************)
(* Normalisation                                                           *)
(***************************************************************************)

\* C17: the normalisation of push is idempotent for every string and both
\* flags: normalising a normalised string changes nothing, and pushing an
\* entry of the queue again leaves the queue as it is
C17_NormalizeIdempotent ==
    /\ \A url \in PushInputs : Normalize(Normalize(url)) = Normalize(url)
    /\ \A k \in DOMAIN _queue :
         /\ Normalize(_queue[k]) = _queue[k]
         /\ Push(_queue, _queue[k]) = _queue

\* with both flags on, a string with an upper-case letter and a query has
\* been pushed and is queued in its normalised form
C17_Witness ==
    /\ _ignoreCase
    /\ _ignoreQueryParams
    /\ <<"a">> \in Range(_queue)
    /\ Normalize(<<"A", "?">>) = <<"a">>
    /\ Len(_queue) = MaxPushed

\* the links extractLinks can return for the pages of the site
SiteLinks ==
    UNION {Range(PageLinks(p)) : p \in {u \in DOMAIN site : ~ExtractionThrows(u)}}

\* two links that differ only in letter case, or only in the query string
SameButCaseOrQuery(u, v) ==
    u # v /\ (toLowerCase(u) = toLowerCase(v) \/ SplitQuery(u) = SplitQuery(v))

\* the places url holds in the queue and in the batches taken so far
Entries(url) ==
    Cardinality({k \in DOMAIN _queue : _queue[k] = url})
    + Cardinality({k \in DOMAIN Flatten(batchLog) : Flatten(batchLog)[k] = url})

Segments(u) == SplitSlash(Pathname(u))

\* segment sequence pa comes strictly before pb: at the first place where
\* they differ pa has the smaller segment, or pa is a proper prefix of pb
SegmentsBefore(pa, pb) ==
    \E i \in 1..Len(pb) :
        /\ \A j \in 1..(i - 1) : j <= Len(pa) /\ pa[j] = pb[j]
        /\ \/ i = Len(pa) + 1
           \/ i <= Len(pa) /\ pa[i] # pb[i] /\ StrLess(pa[i], pb[i])

\* out holds every URL as many times as inp does
IsPermutation(out, inp) ==
    /\ Len(out) = Len(inp)
    /\ \A u \in Range(inp) \cup Range(out) :
         Cardinality({k \in DOMAIN out : out[k] = u})
         = Cardinality({k \in DOMAIN inp : inp[k] = u})

\* no element of out comes strictly before an earlier one
OrderedByPath(out) ==
    \A i, j \in DOMAIN out :
        i < j => ~SegmentsBefore(Segments(out[j]), Segments(out[i]))

\* C19: sortAndFilterUrls returns a permutation of its input in which no URL
\* precedes one whose pathname segments come before its own, a proper prefix
\* coming first; [/a/b, /a, /b] on x.com becomes [/a, /a/b, /b]
C19_SortedByPathSegments ==
    (sinkLog # << >>)
    => /\ IsPermutation(sinkLog[1].urls, batch)
       /\ OrderedByPath(sinkLog[1].urls)
       /\ (batch = <<PageAB, PageA, PageB>>)
          => sinkLog[1].urls = <<PageA, PageAB, PageB>>

\* the array of the example has been sorted
C19_Witness ==
    /\ batch = <<PageAB, PageA, PageB>>
    /\ sinkLog # << >>
    /\ sinkLog[1].urls = <<PageA, PageAB, PageB>>

(***************************************************************************)
(* Properties of the legacy engine                                         *)
(***************************************************************************)

\* a call of the legacy function begins in this step
CallBegins == Len(calls') = Len(calls) + 1

FetchDepthBounded ==
    \A i \in DOMAIN calls : calls[i].fetched => calls[i].depth <= maxDepth

\* the outermost call has returned
TopLevelReturned == calls # << >> /\ calls[1].st = "returned"

\* C21: the legacy function never fetches at a depth above maxDepth, and
\* its outermost call returns, on cyclic link graphs too, in the sequential
\* and in the concurrent variant
C21_LegacyDepthBoundAndReturn == []FetchDepthBounded /\ <>TopLevelReturned

\* the sequential variant has returned from a site whose pages link back to
\* the seed, after leaving out a link for its depth
C21_Witness ==
    /\ sequential
    /\ site = SiteCycle
    /\ TopLevelReturned
    /\ Len(requested) >= 3
    /\ \E i \in DOMAIN calls : calls[i].depth > maxDepth /\ ~calls[i].fetched
    /\ \E i \in DOMAIN calls : calls[i].url = seed /\ calls[i].depth > 0

(***************************************************************************)
(* Logging                                                                 *)
(***************************************************************************)

\* C22: logging does not change the course of a crawl: with VERBOSE on, as
\* with VERBOSE off, no logging call makes the crawl of a valid seed reject
C22_LoggingNeverAborts ==
    (verbose /\ DomainOf(_anyTLD, seed) # Null) => pc # "rejected"

\* the urls handed to axios.get, lower-cased when ignoreCase is on
RequestedKeys ==
    [k \in DOMAIN requested |->
        IF ignoreCase THEN toLowerCase(requested[k]) ELSE requested[k]]

\* C23: in the concurrent variant no url, lower-cased when ignoreCase is on,
\* is handed to axios.get twice, however the sibling and descendant calls
\* interleave, and every url requested was put in visited by its call
C23_LegacyFetchesOnce ==
    ~sequential
    => /\ NoRepeats(RequestedKeys)
       /\ Range(requested) \subseteq Range(visited)

\* two sibling calls of the concurrent variant are fetching at the same time
\* and a third call, on a url already requested, has returned without fetching
C23_Witness ==
    /\ ~sequential
    /\ \E i, j, k \in DOMAIN calls :
         /\ i # j
         /\ calls[i].parent = calls[j].parent
         /\ calls[i].st = "fetching"
         /\ calls[j].st = "fetching"
         /\ calls[k].url \in Range(requested)
         /\ ~calls[k].fetched
         /\ calls[k].depth <= maxDepth

\* the increments the first n calls performed themselves, added up
RECURSIVE Increments(_)
Increments(n) == IF n = 0 THEN NoCount ELSE Plus(Increments(n - 1), calls[n].own)

\* C24: in the concurrent variant the counters the outermost call returns
\* are, for each of crawled, skipped and error, the total of the increments
\* of all the calls, in whatever order the recursive calls return: the
\* reassignment counters = result.counters loses and duplicates nothing, and
\* there is one counters object as with a single shared one
C24_CountersMergeLosesNothing ==
    (~sequential /\ TopLevelReturned)
    => /\ counters[calls[1].ref] = Increments(Len(calls))
       /\ Len(counters) = 1

\* the outermost call of the concurrent variant has returned after two of the
\* recursive calls of one call, and a call made by one of those, added to the
\* counters
C24_Witness ==
    /\ ~sequential
    /\ TopLevelReturned
    /\ \E i, j, k \in DOMAIN calls :
         /\ i < j
         /\ calls[i].parent = calls[j].parent
         /\ calls[i].own.skipped + calls[i].own.error > 0
         /\ calls[j].own.crawled > 0
         /\ calls[k].parent = j
         /\ calls[k].own # NoCount

\* takeAndRemove is called on a non-empty queue and returns
TakesBatch == batchLog' # batchLog

\* C25: takeAndRemove returns the min(maxConcurrentThreads, |Frontier|) URLs
\* inserted earliest, in insertion order, and leaves the others in their
\* order; a push, of a URL already in the Frontier too, leaves every URL of
\* the Frontier at its position: the batches follow from the insertions
C25_BatchesInInsertionOrder ==
    [][/\ TakesBatch
          => LET n == Min(_maxConcurrentThreads, Len(_queue))
             IN  /\ batch' = SubSeq(_queue, 1, n)
                 /\ _queue' = SubSeq(_queue, n + 1, Len(_queue))
       /\ (\E i \in DOMAIN tasks : tasks[i].st = "extracted" /\ tasks'[i].st = "done")
          => /\ Len(_queue') >= Len(_queue)
             /\ SubSeq(_queue', 1, Len(_queue)) = _queue]_vars

\* two tasks have pushed the same link, which is still in the Frontier
\* behind another URL, and a batch was cut off at maxConcurrentThreads
C25_Witness ==
    /\ \E i, j \in DOMAIN tasks :
         /\ i # j
         /\ tasks[i].st = "done"
         /\ tasks[j].st = "done"
         /\ \E u \in Range(tasks[i].links) \cap Range(tasks[j].links) :
              /\ Normalize(u) \in Range(_queue)
              /\ Normalize(u) # _queue[Len(_queue)]
    /\ \E b \in DOMAIN batchLog :
         /\ Len(batchLog[b]) = _maxConcurrentThreads
         /\ b < Len(batchLog)

\* crawl() has returned and every fs operation it started is over
FileSettled == pc = "done" /\ completed = DOMAIN sinkLog

\* C26: once crawl() has returned and every file operation it started has
\* completed, the output file holds the sorted final VisitedSet joined with
\* newlines, in whatever order the appends and the final overwrite completed
C26_FileHoldsSortedVisited ==
    FileSettled => file = Join(sortAndFilterUrls(_alreadyCrawled))

\* crawl() stands between two batches or has returned
BatchBoundary == pc \in {"loop", "done"}

\* C27: a processed URL raises at most one of skipped and error, by at most
\* 1, so between batches and at Done skipped + error <= crawled
C27_SkippedAndErrorWithinCrawled ==
    (BatchBoundary /\ _baseDomain # Null)
    => _counters.skipped + _counters.error <= _counters.crawled

\* C28: for every integer maxConcurrentThreads, 0 and the negative ones too,
\* an iteration of the main loop entered with a non-empty Frontier takes at
\* least one URL off it, so the loop does not go round without progress
C28_EveryIterationDequeues ==
    [][TakesBatch => (Len(batch') >= 1 /\ Len(_queue') < Len(_queue))]_vars

\* the urls the calls a successful call on url makes at once work on
LegacyTargets(url) == {LegacyUrl(l) : l \in Range(LegacyHrefs(url))}

RECURSIVE WithinDistance(_)
\* the urls at a link distance of at most d from the seed
WithinDistance(d) ==
    IF d = 0 THEN {LegacyUrl(seed)}
    ELSE LET near == WithinDistance(d - 1)
         IN  near \cup UNION {LegacyTargets(u) : u \in near}

\* no call failed to fetch or to extract: nothing was counted but crawled
LegacyAllFetched == counters[1].skipped = 0 /\ counters[1].error = 0

\* C29: when every fetch succeeds, every same-domain URL at a shortest link
\* distance of at most maxDepth from the seed is in visited and was fetched
\* by the time the outermost call returns, in the sequential and in the
\* concurrent variant and in whatever order the links are explored
C29_LegacyCoversDepth ==
    (TopLevelReturned /\ LegacyAllFetched)
    => \A u \in WithinDistance(maxDepth) :
         u \in Range(visited) /\ u \in Range(requested)
====
